---- MODULE Spec2Model ----
(***************************************************************************)
(* Model of pudl.analysis.egrid: calculate_fuel_percentage and             *)
(* determine_primary_fuel, the two table transforms that turn boiler fuel  *)
(* records into per-fuel heat shares and a primary fuel per boiler-month   *)
(* or plant-month.                                                         *)
(*                                                                         *)
(* A DataFrame of records is a sequence of rows, a row a function from     *)
(* column name to value.  A float is an exact rational <<n, d>> with d > 0 *)
(* in lowest terms, and NaN is the empty tuple.                            *)
(***************************************************************************)
EXTENDS Integers, Sequences, FiniteSets, TLC

VARIABLES bf_df,        \* the caller's boiler_fuel_eia923 table
          called,       \* the function called last ("none" before any call)
          level,        \* level argument of the last call
          fuel_thresh,  \* fuel_thresh argument of the last determine_primary_fuel
          fuel_pivot,   \* share table computed by the last call
          primary_fuel, \* table returned by the last determine_primary_fuel
          raised        \* the exception the last call ended with ("none" if it returned)

vars == <<bf_df, called, level, fuel_thresh, fuel_pivot, primary_fuel, raised>>

----------------------------------------------------------------------------
(* Bounds and input domains *)

MaxRecords == 3

Levels == {"boiler", "plant"}

----------------------------------------------------------------------------
(* Floats *)

NaN == <<>>

IsNaN(x) == x = NaN

Abs(n) == IF n < 0 THEN -n ELSE n

RECURSIVE GCD(_, _)
GCD(a, b) == IF b = 0 THEN a ELSE GCD(b, a % b)

\* the float n/d, d # 0
Frac(n, d) ==
    LET g == GCD(Abs(n), Abs(d))
        s == IF d < 0 THEN -1 ELSE 1
    IN  IF g = 0 THEN NaN ELSE <<(s * n) \div g, (s * d) \div g>>

Num(n) == <<n, 1>>

Zero == Num(0)

\* x * y, NaN if either operand is NaN
FMul(x, y) ==
    IF IsNaN(x) \/ IsNaN(y) THEN NaN ELSE Frac(x[1] * y[1], x[2] * y[2])

FAdd(x, y) ==
    IF IsNaN(x) \/ IsNaN(y) THEN NaN
    ELSE Frac(x[1] * y[2] + y[1] * x[2], x[2] * y[2])

\* x / y for y # 0, NaN if either operand is NaN
FDiv(x, y) ==
    IF IsNaN(x) \/ IsNaN(y) THEN NaN ELSE Frac(x[1] * y[2], x[2] * y[1])

\* x >= y; a comparison with NaN is False
FGe(x, y) ==
    IF IsNaN(x) \/ IsNaN(y) THEN FALSE ELSE x[1] * y[2] >= y[1] * x[2]

FGt(x, y) ==
    IF IsNaN(x) \/ IsNaN(y) THEN FALSE ELSE x[1] * y[2] > y[1] * x[2]

\* Series.sum(): NaN is skipped, the sum of nothing is 0
RECURSIVE SumSkipNa(_)
SumSkipNa(s) ==
    IF s = <<>> THEN Zero
    ELSE IF IsNaN(Head(s)) THEN SumSkipNa(Tail(s))
    ELSE FAdd(Head(s), SumSkipNa(Tail(s)))

CountNotNa(s) == Cardinality({i \in DOMAIN s : ~IsNaN(s[i])})

\* Series.mean(): NaN is skipped, the mean of nothing is NaN
MeanSkipNa(s) ==
    IF CountNotNa(s) = 0 THEN NaN ELSE FDiv(SumSkipNa(s), Num(CountNotNa(s)))

----------------------------------------------------------------------------
(* Fuel type codes and the order of the pivoted columns *)

Chars(f) ==
    CASE f = "BIT" -> <<66, 73, 84>>
      [] f = "DFO" -> <<68, 70, 79>>
      [] f = "NG" -> <<78, 71>>

\* string comparison s < t on character codes
RECURSIVE SeqLess(_, _)
SeqLess(s, t) ==
    IF t = <<>> THEN FALSE
    ELSE IF s = <<>> THEN TRUE
    ELSE IF Head(s) # Head(t) THEN Head(s) < Head(t)
    ELSE SeqLess(Tail(s), Tail(t))

LexLess(f, g) == SeqLess(Chars(f), Chars(g))

\* the labels of S in ascending order
RECURSIVE SortedLabels(_)
SortedLabels(S) ==
    IF S = {} THEN <<>>
    ELSE LET m == CHOOSE x \in S : \A y \in S \ {x} : LexLess(x, y)
         IN  <<m>> \o SortedLabels(S \ {m})

Range(s) == {s[i] : i \in DOMAIN s}

\* the elements of S in some fixed order
RECURSIVE SeqOf(_)
SeqOf(S) ==
    IF S = {} THEN <<>>
    ELSE LET m == CHOOSE x \in S : TRUE IN <<m>> \o SeqOf(S \ {m})

----------------------------------------------------------------------------
(* calculate_fuel_percentage *)

\* bf_df['fuel_consumed_mmbtu'] = bf_df['fuel_consumed_units'] * bf_df['fuel_mmbtu_per_unit']
SetMmbtu(df) ==
    [i \in DOMAIN df |->
        [c \in DOMAIN df[i] \cup {"fuel_consumed_mmbtu"} |->
            IF c = "fuel_consumed_mmbtu"
            THEN FMul(df[i].fuel_consumed_units, df[i].fuel_mmbtu_per_unit)
            ELSE df[i][c]]]

\* bf_df[[...]]: a new table holding the named columns
Project(df, cols) == [i \in DOMAIN df |-> [c \in cols |-> df[i][c]]]

BoilerColumns ==
    {"report_date", "plant_id_eia", "boiler_id", "fuel_type_code", "fuel_consumed_mmbtu"}

PlantColumns == {"report_date", "plant_id_eia", "fuel_type_code", "fuel_consumed_mmbtu"}

\* the index of a pivoted row
IndexKey(r, lvl) ==
    IF lvl = "boiler" THEN <<r.report_date, r.plant_id_eia, r.boiler_id>>
    ELSE <<r.report_date, r.plant_id_eia>>

\* the fuel_consumed_mmbtu of the rows of df with index k and fuel f, in row order
RECURSIVE Heats(_, _, _, _)
Heats(df, lvl, k, f) ==
    IF df = <<>> THEN <<>>
    ELSE LET r == Head(df)
             rest == Heats(Tail(df), lvl, k, f)
         IN  IF IndexKey(r, lvl) = k /\ r.fuel_type_code = f
             THEN <<r.fuel_consumed_mmbtu>> \o rest
             ELSE rest

\* the grouping left out: the records go to the pivot as they are
NoGroupBy(df) == df

\* bf_df.groupby(['plant_id_eia', 'report_date', 'fuel_type_code']).sum().reset_index()
GroupBySum(df) ==
    LET groups == {<<IndexKey(df[i], "plant"), df[i].fuel_type_code>> : i \in DOMAIN df}
        gs == SeqOf(groups)
    IN  [i \in DOMAIN gs |->
            [report_date |-> gs[i][1][1],
             plant_id_eia |-> gs[i][1][2],
             fuel_type_code |-> gs[i][2],
             fuel_consumed_mmbtu |-> SumSkipNa(Heats(df, "plant", gs[i][1], gs[i][2]))]]

\* the aggregate pivot_table puts in a cell: the mean (its default aggfunc)
AggFunc(s) == MeanSkipNa(s)

\* the fuels in the order in which the rows of df first name them
RECURSIVE EncounterColumns(_, _)
EncounterColumns(df, fuels) ==
    IF df = <<>> THEN <<>>
    ELSE IF Head(df).fuel_type_code \in fuels
         THEN <<Head(df).fuel_type_code>>
                  \o EncounterColumns(Tail(df), fuels \ {Head(df).fuel_type_code})
         ELSE EncounterColumns(Tail(df), fuels)

\* the order of the fuel columns of the pivoted table: pivot_table sorts the
\* column labels
PivotColumns(df, fuels) == SortedLabels(fuels)

\* df.pivot_table(index=..., columns='fuel_type_code', values='fuel_consumed_mmbtu')
PivotTable(df, lvl) ==
    LET groups == {<<IndexKey(df[i], lvl), df[i].fuel_type_code>> : i \in DOMAIN df}
        agged == [g \in groups |-> AggFunc(Heats(df, lvl, g[1], g[2]))]
        kept == {g \in groups : ~IsNaN(agged[g])}
        cols == PivotColumns(df, {g[2] : g \in kept})
    IN  [columns |-> cols,
         data |-> [k \in {g[1] : g \in kept} |->
                     [f \in Range(cols) |->
                         IF <<k, f>> \in kept THEN agged[<<k, f>>] ELSE NaN]]]

\* a row sum that does not skip NaN
RowTotalNoSkip(row, cols) ==
    IF \E i \in DOMAIN cols : IsNaN(row[cols[i]]) THEN NaN
    ELSE SumSkipNa([i \in DOMAIN cols |-> row[cols[i]]])

\* fuel_pivot.sum(axis=1, numeric_only=True) of one row
RowTotal(row, cols) == SumSkipNa([i \in DOMAIN cols |-> row[cols[i]]])

\* a fill with 1 whatever the value asked for
FillNaOne(x, v) == IF IsNaN(x) THEN Num(1) ELSE x

\* fuel_pivot.fillna(value=0) of one cell
FillNa(x, v) == IF IsNaN(x) THEN v ELSE x

\* the rows that survive the drop of the months with a total of zero
KeepRow(total) == total # Zero

calculate_fuel_percentage(df, lvl) ==
    LET df1 == SetMmbtu(df)
        long == IF lvl = "boiler" THEN Project(df1, BoilerColumns)
                ELSE GroupBySum(Project(df1, PlantColumns))
        pivot == PivotTable(long, lvl)
        cols == pivot.columns
        total == [k \in DOMAIN pivot.data |-> RowTotal(pivot.data[k], cols)]
        filled == [k \in DOMAIN pivot.data |->
                      [f \in Range(cols) |-> FillNa(pivot.data[k][f], Zero)]]
        rows == {k \in DOMAIN filled : KeepRow(total[k])}
    IN  [columns |-> cols,
         data |-> [k \in rows |->
                     [f \in Range(cols) |-> FDiv(filled[k][f], total[k])]]]

----------------------------------------------------------------------------
(* determine_primary_fuel *)

\* a strict comparison
MaskStrict(x, thresh) == FGt(x, thresh)

\* mask = pf_by_heat >= fuel_thresh, of one cell
Mask(x, thresh) == FGe(x, thresh)

\* the mask not applied
NoWhere(row, thresh) == row

\* pf_by_heat.where(mask), of one row
Where(row, thresh) == [f \in DOMAIN row |-> IF Mask(row[f], thresh) THEN row[f] ELSE NaN]

\* the missing value of a column of labels
NaNLabel == "NaN"

\* pf_by_heat['primary_fuel'].fillna(value='unknown') of one label
FillNaLabel(x, v) == IF x = NaNLabel THEN v ELSE x

\* idxmax(axis=1) of one row: the first column that holds the maximum of the
\* values that are not NaN, NaN if there is none
IdxMax(row, cols) ==
    LET cand == {i \in DOMAIN cols : ~IsNaN(row[cols[i]])}
        best == {i \in cand : \A j \in cand : FGe(row[cols[i]], row[cols[j]])}
    IN  IF cand = {} THEN NaNLabel
        ELSE cols[CHOOSE i \in best : \A j \in best : i <= j]

\* lines 47-54: the primary_fuel column of the share table pf_by_heat
PrimaryFuelColumn(pf_by_heat, thresh) ==
    [k \in DOMAIN pf_by_heat.data |->
        FillNaLabel(IdxMax(Where(pf_by_heat.data[k], thresh), pf_by_heat.columns),
                    "unknown")]

determine_primary_fuel(df, thresh, lvl) ==
    PrimaryFuelColumn(calculate_fuel_percentage(df, lvl), thresh)

----------------------------------------------------------------------------
(* The caller: a table of records, then calls of the two functions *)

Entities == {<<1, "a">>, <<1, "b">>, <<2, "a">>}

Fuels == {"BIT", "NG"}

\* <<fuel_consumed_units, fuel_mmbtu_per_unit>> of a record
Quantities ==
    {<<NaN, Num(1)>>, <<Num(1), NaN>>, <<Num(-1), Num(1)>>,
     <<Num(0), Num(2)>>, <<Num(1), Num(2)>>}

Thresholds == {Num(0), Frac(1, 2), Num(1)}

Records ==
    {[report_date |-> 1,
      plant_id_eia |-> e[1],
      boiler_id |-> e[2],
      fuel_type_code |-> f,
      fuel_consumed_units |-> q[1],
      fuel_mmbtu_per_unit |-> q[2]] : e \in Entities, f \in Fuels, q \in Quantities}

EmptyTable == [columns |-> <<>>, data |-> <<>>]

Init ==
    /\ bf_df \in UNION {[1..n -> Records] : n \in 1..MaxRecords}
    /\ called = "none"
    /\ level = "boiler"
    /\ fuel_thresh = NaN
    /\ fuel_pivot = EmptyTable
    /\ primary_fuel = <<>>
    /\ raised = "none"

\* Each behaviour is one call on a freshly built table.
CalculateFuelPercentage(lvl) ==
    /\ called = "none"
    /\ bf_df' = SetMmbtu(bf_df)
    /\ called' = "calculate_fuel_percentage"
    /\ level' = lvl
    /\ fuel_thresh' = NaN
    /\ fuel_pivot' = calculate_fuel_percentage(bf_df, lvl)
    /\ primary_fuel' = <<>>
    /\ raised' = "none"

\* idxmax of a table without columns takes the argmax of an empty sequence:
\* whether that raises depends on the library, so both outcomes are possible
DeterminePrimaryFuel(thresh, lvl) ==
    /\ called = "none"
    /\ bf_df' = SetMmbtu(bf_df)
    /\ called' = "determine_primary_fuel"
    /\ level' = lvl
    /\ fuel_thresh' = thresh
    /\ fuel_pivot' = calculate_fuel_percentage(bf_df, lvl)
    /\ \/ /\ raised' = "none"
          /\ primary_fuel' = PrimaryFuelColumn(fuel_pivot', thresh)
       \/ /\ fuel_pivot'.columns = <<>>
          /\ raised' = "ValueError"
          /\ primary_fuel' = <<>>

Next ==
    \/ \E lvl \in Levels : CalculateFuelPercentage(lvl)
    \/ \E thresh \in Thresholds, lvl \in Levels : DeterminePrimaryFuel(thresh, lvl)

Spec == Init /\ [][Next]_vars

----------------------------------------------------------------------------
(* What the records say, computed from the caller's two input columns *)

\* the entity-periods of the input at a level
EntityPeriods(lvl) == {IndexKey(bf_df[i], lvl) : i \in DOMAIN bf_df}

RecordsOf(lvl, k) == {i \in DOMAIN bf_df : IndexKey(bf_df[i], lvl) = k}

RecordHeat(i) == FMul(bf_df[i].fuel_consumed_units, bf_df[i].fuel_mmbtu_per_unit)

FuelsOf(lvl, k) == {bf_df[i].fuel_type_code : i \in RecordsOf(lvl, k)}

\* the sum of the heats of the records numbered in I; a record that lacks a
\* value has no heat to add
RECURSIVE HeatSum(_)
HeatSum(I) ==
    IF I = {} THEN Zero
    ELSE LET i == CHOOSE x \in I : TRUE
         IN  IF IsNaN(RecordHeat(i)) THEN HeatSum(I \ {i})
             ELSE FAdd(RecordHeat(i), HeatSum(I \ {i}))

FuelHeat(lvl, k, f) ==
    HeatSum({i \in RecordsOf(lvl, k) : bf_df[i].fuel_type_code = f})

TotalHeat(lvl, k) == HeatSum(RecordsOf(lvl, k))

ShareRows == DOMAIN fuel_pivot.data

ShareColumns == Range(fuel_pivot.columns)

Returned == called # "none" /\ raised = "none"

Classified == called = "determine_primary_fuel" /\ raised = "none"

----------------------------------------------------------------------------
(* C1: every row of the share table has shares that sum to exactly 1, at   *)
(* either level.                                                           *)
SharesSumToOne ==
    called # "none" =>
        \A k \in ShareRows :
            SumSkipNa([i \in DOMAIN fuel_pivot.columns |->
                          fuel_pivot.data[k][fuel_pivot.columns[i]]]) = Num(1)

\* a row with two fuels of nonzero share, beside a missing value in the input
SharesSumToOneWitness ==
    /\ called # "none"
    /\ \E i \in DOMAIN bf_df : IsNaN(RecordHeat(i))
    /\ \E k \in ShareRows : \E f, g \in ShareColumns :
          /\ f # g
          /\ fuel_pivot.data[k][f] # Zero
          /\ fuel_pivot.data[k][g] # Zero

ZeroHeatAbsent ==
    Returned =>
        \A k \in EntityPeriods(level) :
            TotalHeat(level, k) = Zero => k \notin ShareRows /\ k \notin DOMAIN primary_fuel

\* the fuels of row k whose share is the maximum of the row and >= the threshold
TiedMaxima(k) ==
    {f \in ShareColumns :
        /\ FGe(fuel_pivot.data[k][f], fuel_thresh)
        /\ \A g \in ShareColumns : FGe(fuel_pivot.data[k][f], fuel_pivot.data[k][g])}

(* C4: fuels tied at the maximum share, that share >= the threshold: the   *)
(* primary fuel is the lexicographically first of the tied fuels, whatever *)
(* the order of the records.                                               *)
TieBreakLexFirst ==
    Classified =>
        \A k \in ShareRows :
            Cardinality(TiedMaxima(k)) >= 2 =>
                /\ primary_fuel[k] \in TiedMaxima(k)
                /\ \A g \in TiedMaxima(k) \ {primary_fuel[k]} : LexLess(primary_fuel[k], g)

\* a tie whose lexicographically later fuel comes first in the input
TieBreakLexFirstWitness ==
    /\ Classified
    /\ \E k \in ShareRows :
          /\ Cardinality(TiedMaxima(k)) >= 2
          /\ primary_fuel[k] = "BIT"
          /\ \E i, j \in RecordsOf(level, k) :
                /\ i < j
                /\ bf_df[i].fuel_type_code = "NG"
                /\ bf_df[j].fuel_type_code = "BIT"
                /\ \A h \in RecordsOf(level, k) : h >= i

(* C5: a record that lacks consumed units or heat per unit makes the call  *)
(* fail with InvalidRecordError, and no table is returned.                 *)
MissingValueRaises ==
    (/\ called # "none"
     /\ \E i \in DOMAIN bf_df :
           IsNaN(bf_df[i].fuel_consumed_units) \/ IsNaN(bf_df[i].fuel_mmbtu_per_unit))
    => raised = "InvalidRecordError" /\ ShareRows = {} /\ primary_fuel = <<>>

(* C6: a call leaves the caller's table as it was: same columns, same      *)
(* values.                                                                 *)
CallsArePure == [][bf_df' = bf_df]_vars

NonzeroFuels(lvl, k) == {f \in FuelsOf(lvl, k) : FuelHeat(lvl, k, f) # Zero}

FullShareRule(k) ==
    /\ (k \in DOMAIN primary_fuel /\ primary_fuel[k] # "unknown") =>
          FDiv(FuelHeat(level, k, primary_fuel[k]), TotalHeat(level, k)) = Num(1)
    /\ Cardinality(NonzeroFuels(level, k)) >= 2 =>
          k \in DOMAIN primary_fuel /\ primary_fuel[k] = "unknown"

NoNegativeHeat(lvl, k) == \A i \in RecordsOf(lvl, k) : ~FGt(Zero, RecordHeat(i))

PlantShareIsSumRatio ==
    (called # "none" /\ level = "plant") =>
        \A k \in ShareRows : \A f \in ShareColumns :
            fuel_pivot.data[k][f] = FDiv(FuelHeat("plant", k, f), TotalHeat("plant", k))

\* an emitted plant row fed by one fuel from two boilers and by a second fuel
PlantShareIsSumRatioWitness ==
    /\ called # "none"
    /\ level = "plant"
    /\ \E k \in ShareRows : \E i, j, l \in RecordsOf("plant", k) :
          /\ bf_df[i].boiler_id # bf_df[j].boiler_id
          /\ bf_df[i].fuel_type_code = bf_df[j].fuel_type_code
          /\ bf_df[l].fuel_type_code # bf_df[i].fuel_type_code
          /\ \A h \in {i, j, l} : ~IsNaN(RecordHeat(h)) /\ RecordHeat(h) # Zero

HasDuplicates(k) ==
    \E i, j \in RecordsOf("boiler", k) :
        i # j /\ bf_df[i].fuel_type_code = bf_df[j].fuel_type_code

Picks(k) ==
    {c \in [FuelsOf("boiler", k) -> RecordsOf("boiler", k)] :
        \A f \in FuelsOf("boiler", k) : bf_df[c[f]].fuel_type_code = f}

PickedTotal(k, c) == HeatSum({c[f] : f \in FuelsOf("boiler", k)})

RowFromPick(k, c) ==
    IF PickedTotal(k, c) = Zero THEN k \notin ShareRows
    ELSE /\ k \in ShareRows
         /\ \A f \in ShareColumns :
               fuel_pivot.data[k][f] =
                   IF f \in FuelsOf("boiler", k)
                   THEN FDiv(FillNa(RecordHeat(c[f]), Zero), PickedTotal(k, c))
                   ELSE Zero

(* C9: at boiler level, with several records of one (plant, boiler,        *)
(* period, fuel), the call fails or each cell holds the heat of one of its *)
(* records: the row is the one some choice of one record per fuel gives.   *)
DuplicatePicksOne ==
    (called # "none" /\ level = "boiler" /\ raised = "none") =>
        \A k \in EntityPeriods("boiler") :
            HasDuplicates(k) => \E c \in Picks(k) : RowFromPick(k, c)

\* the records of entity-period k, the others removed
Alone(k) == SelectSeq(bf_df, LAMBDA r : IndexKey(r, level) = k)

(* C10: the presence, the shares and the primary fuel of an entity-period  *)
(* are those the call gives on the records of that entity-period alone.    *)
PartitionLocal ==
    Classified =>
        \A k \in EntityPeriods(level) :
            LET shares == calculate_fuel_percentage(Alone(k), level)
                fuel == determine_primary_fuel(Alone(k), fuel_thresh, level)
            IN  /\ k \in DOMAIN primary_fuel <=> k \in DOMAIN fuel
                /\ k \in DOMAIN primary_fuel =>
                      /\ primary_fuel[k] = fuel[k]
                      /\ \A f \in ShareColumns :
                            fuel_pivot.data[k][f] =
                                IF f \in Range(shares.columns)
                                THEN shares.data[k][f] ELSE Zero

\* two classified entity-periods, each burning a fuel the other does not
PartitionLocalWitness ==
    /\ Classified
    /\ \E k1, k2 \in DOMAIN primary_fuel :
          /\ k1 # k2
          /\ FuelsOf(level, k1) = {"NG"}
          /\ FuelsOf(level, k2) = {"BIT"}
          /\ primary_fuel[k1] = "NG"

====
